---- MODULE Spec2Model ----
(***************************************************************************)
(* Streaming field extraction (parsePartialJson) and the TerminalPanel     *)
(* that displays its output, from src/components/BankingUI.tsx, and the    *)
(* consumers that compile the code: P5Canvas (src/unnamed/part_000),       *)
(* PulseEngine (src/index.tsx), generateExportPack                         *)
(* (src/utils/exportService.ts).  Further: App.triggerAI (src/App.tsx)    *)
(* with analyzeWealth (src/services/geminiService.ts), AISuiteModule        *)
(* (src/index.tsx), the export run of generateExportPack and the p5         *)
(* instances of P5Canvas.                                                   *)
(*                                                                         *)
(* A JavaScript string is a sequence of one-character strings.  The two    *)
(* regular expressions of extract are modelled by the scan a backtracking  *)
(* matcher performs: every quantified item of the patterns is mutually     *)
(* exclusive with what follows it, so giving a character back never turns  *)
(* a failed attempt into a match and the greedy scan decides each start    *)
(* position.                                                               *)
(***************************************************************************)
EXTENDS Integers, Sequences, FiniteSets, TLC

VARIABLES
    streamBuffer,        \* prop streamBuffer: the text received so far
    isGenerating,        \* prop isGenerating
    data,                \* prop data: <<>> for null, <<d>> for a SpinnerData d
    generationStartTime, \* prop generationStartTime, counts the sessions
    values,              \* generation source: <<v>> while it is producing the
                         \* JSON text of the object v, <<>> otherwise
    lastValidCodeRef,    \* lastValidCodeRef.current
    displayData,         \* displayData of the latest render
    codeToDisplay,       \* codeToDisplay of the latest render
    code,                \* prop code of the consumers
    compiled,            \* per consumer, the text handed to new Function
    apiKey,              \* process.env.API_KEY
    isAnalyzing,         \* App state isAnalyzing
    insight,             \* App state insight: <<>> for null, <<r>> for r
    requests,            \* the triggerAI invocations, in the order started
    input,               \* AISuiteModule state input
    messages,            \* AISuiteModule state messages
    sends,               \* the handleSend calls that issued a request
    exports,             \* the generateExportPack calls, in the order made
    mounted,             \* P5Canvas is mounted
    p5InstanceRef,       \* p5InstanceRef.current: <<>> or <<instance>>
    instances,           \* the p5 instances created and not removed
    created,             \* the number of p5 instances created so far
    p5Loaded,            \* window.p5 is defined
    hasCleanup           \* the last run of the code effect returned its cleanup

appVars == <<apiKey, isAnalyzing, insight, requests>>
chatVars == <<input, messages, sends>>
canvasVars == <<mounted, p5InstanceRef, instances, created, p5Loaded, hasCleanup>>
panelVars == <<streamBuffer, isGenerating, data, generationStartTime, values,
               lastValidCodeRef, displayData, codeToDisplay>>

vars == <<streamBuffer, isGenerating, data, generationStartTime, values,
          lastValidCodeRef, displayData, codeToDisplay, code, compiled,
          apiKey, isAnalyzing, insight, requests, input, messages, sends,
          exports, mounted, p5InstanceRef, instances, created, p5Loaded,
          hasCleanup>>

-----------------------------------------------------------------------------
(* Characters *)

Q == "\""
BS == "\\"
NL == "\n"
TAB == "\t"
SP == " "
COLON == ":"
CR == "\r"
FF == "\f"

\* Characters that have no notation in a string of this language, each
\* written as a name that stands for the one character: the vertical tab,
\* the no-break space, U+FEFF, the line and paragraph separators U+2028 and
\* U+2029, and the characters of the category Space_Separator.
VT == "U+000B"
NBSP == "U+00A0"
ZWNBSP == "U+FEFF"
LS == "U+2028"
PS == "U+2029"
SpaceSeparators == {"U+1680", "U+2000", "U+2001", "U+2002", "U+2003", "U+2004",
                    "U+2005", "U+2006", "U+2007", "U+2008", "U+2009", "U+200A",
                    "U+202F", "U+205F", "U+3000"}

\* Line terminators: the characters "." does not match without the s flag.
IsLineTerminator(c) == c \in {NL, CR, LS, PS}

\* White space as \s and String.trim see it.
IsSpace(c) ==
    \/ c \in {SP, TAB, VT, FF, NBSP, ZWNBSP}
    \/ IsLineTerminator(c)
    \/ c \in SpaceSeparators

mutationNameKey == <<"m", "u", "t", "a", "t", "i", "o", "n", "N", "a", "m", "e">>
reasoningKey == <<"r", "e", "a", "s", "o", "n", "i", "n", "g">>
p5CodeKey == <<"p", "5", "C", "o", "d", "e">>

Fields == {"mutationName", "reasoning", "p5Code"}

KeyOf(f) ==
    CASE f = "mutationName" -> mutationNameKey
      [] f = "reasoning" -> reasoningKey
      [] f = "p5Code" -> p5CodeKey

-----------------------------------------------------------------------------
(* The regular expressions of extract *)

\* \s* from position i: the first position that holds no white space.
RECURSIVE skipWs(_, _)
skipWs(s, i) ==
    IF i <= Len(s) /\ IsSpace(s[i]) THEN skipWs(s, i + 1) ELSE i

\* Variant: ([^"]*), a capture group that takes a backslash as any other
\* character and stops at every quote.
RECURSIVE scanBodyNoEscapes(_, _)
scanBodyNoEscapes(s, i) ==
    IF i > Len(s) THEN i
    ELSE IF s[i] # Q THEN scanBodyNoEscapes(s, i + 1)
    ELSE i

\* ((?:[^"\\]|\\.)*) from position i: the first position the group cannot
\* consume (Len(s) + 1 when it consumes the rest of the text).
RECURSIVE scanBody(_, _)
scanBody(s, i) ==
    IF i > Len(s) THEN i
    ELSE IF s[i] # Q /\ s[i] # BS THEN scanBody(s, i + 1)
    ELSE IF s[i] = BS /\ i + 1 <= Len(s) /\ ~IsLineTerminator(s[i + 1])
         THEN scanBody(s, i + 2)
    ELSE i

\* "key" at position i, the quotes included.
quotedKeyAt(s, key, i) ==
    /\ i + Len(key) + 1 <= Len(s)
    /\ s[i] = Q
    /\ \A j \in 1..Len(key) : s[i + j] = key[j]
    /\ s[i + Len(key) + 1] = Q

NoMatch == [matched |-> FALSE, cap |-> <<>>]

\* Variant: the capture group opened before the opening quote.
captureAtWithQuote(s, closed, o, e) ==
    IF (closed /\ e <= Len(s) /\ s[e] = Q) \/ (~closed /\ e = Len(s) + 1)
    THEN [matched |-> TRUE, cap |-> SubSeq(s, o, e - 1)]
    ELSE NoMatch

\* The capture group consumed up to position e, after the opening quote at
\* o: a match when a closing quote (closed) or the end of the text (not
\* closed) stands at e.
captureAt(s, closed, o, e) ==
    IF (closed /\ e <= Len(s) /\ s[e] = Q) \/ (~closed /\ e = Len(s) + 1)
    THEN [matched |-> TRUE, cap |-> SubSeq(s, o + 1, e - 1)]
    ELSE NoMatch

\* The opening quote expected at position o.
openingAt(s, closed, o) ==
    IF o <= Len(s) /\ s[o] = Q
    THEN captureAt(s, closed, o, scanBody(s, o + 1))
    ELSE NoMatch

\* The colon expected at position c.
colonAt(s, closed, c) ==
    IF c <= Len(s) /\ s[c] = COLON
    THEN openingAt(s, closed, skipWs(s, c + 1))
    ELSE NoMatch

\* One attempt of "key"\s*:\s*"((?:[^"\\]|\\.)*) at position i, followed by
\* a closing quote (closed) or by the end of the text (not closed).
matchAt(s, key, closed, i) ==
    IF quotedKeyAt(s, key, i)
    THEN colonAt(s, closed, skipWs(s, i + Len(key) + 2))
    ELSE NoMatch

\* String.prototype.match with a non-global expression: the match at the
\* leftmost position that has one, or null.
RECURSIVE matchFrom(_, _, _, _)
matchOrNext(m, s, key, closed, i) ==
    IF m.matched THEN m ELSE matchFrom(s, key, closed, i + 1)

matchFrom(s, key, closed, i) ==
    IF i > Len(s) THEN NoMatch
    ELSE matchOrNext(matchAt(s, key, closed, i), s, key, closed, i)

\* Variant: the match at the rightmost position that has one.
RECURSIVE matchBack(_, _, _, _)
matchOrPrevious(m, s, key, closed, i) ==
    IF m.matched THEN m ELSE matchBack(s, key, closed, i - 1)

matchBack(s, key, closed, i) ==
    IF i < 1 THEN NoMatch
    ELSE matchOrPrevious(matchAt(s, key, closed, i), s, key, closed, i)

strictMatchLast(jsonStr, key) == matchBack(jsonStr, key, TRUE, Len(jsonStr))

strictMatch(jsonStr, key) == matchFrom(jsonStr, key, TRUE, 1)

\* Variant: the open-string expression without its final $, which takes the
\* run as far as it goes.
unanchoredOpeningAt(s, o) ==
    IF o <= Len(s) /\ s[o] = Q
    THEN [matched |-> TRUE, cap |-> SubSeq(s, o + 1, scanBody(s, o + 1) - 1)]
    ELSE NoMatch

unanchoredColonAt(s, c) ==
    IF c <= Len(s) /\ s[c] = COLON
    THEN unanchoredOpeningAt(s, skipWs(s, c + 1))
    ELSE NoMatch

unanchoredAt(s, key, i) ==
    IF quotedKeyAt(s, key, i)
    THEN unanchoredColonAt(s, skipWs(s, i + Len(key) + 2))
    ELSE NoMatch

RECURSIVE unanchoredFrom(_, _, _)
unanchoredOrNext(m, s, key, i) ==
    IF m.matched THEN m ELSE unanchoredFrom(s, key, i + 1)

unanchoredFrom(s, key, i) ==
    IF i > Len(s) THEN NoMatch
    ELSE unanchoredOrNext(unanchoredAt(s, key, i), s, key, i)

looseMatchUnanchored(jsonStr, key) == unanchoredFrom(jsonStr, key, 1)

looseMatch(jsonStr, key) == matchFrom(jsonStr, key, FALSE, 1)

\* A value that is no string: what a function that forgets its final
\* return hands back.
Undefined == <<"undefined">>

\* Variant: extract without its final return "".
extractNoDefault(jsonStr, key) ==
    LET sm == strictMatch(jsonStr, key)
    IN IF sm.matched THEN sm.cap
       ELSE LET lm == looseMatch(jsonStr, key)
            IN IF lm.matched THEN lm.cap ELSE Undefined

\* Variant: the open-string pass tried before the closed-string pass.
extractLooseFirst(jsonStr, key) ==
    LET lm == looseMatch(jsonStr, key)
    IN IF lm.matched THEN lm.cap
       ELSE LET sm == strictMatch(jsonStr, key)
            IN IF sm.matched THEN sm.cap ELSE <<>>

extract(jsonStr, key) ==
    LET sm == strictMatch(jsonStr, key)
    IN IF sm.matched THEN sm.cap
       ELSE LET lm == looseMatch(jsonStr, key)
            IN IF lm.matched THEN lm.cap ELSE <<>>

-----------------------------------------------------------------------------
(* Decoding of p5Code *)

\* String.prototype.replace with a global two-character pattern a b:
\* every non-overlapping occurrence, found left to right, becomes rep.
RECURSIVE replaceAll(_, _, _, _)
replaceAll(s, a, b, rep) ==
    IF Len(s) < 2 THEN s
    ELSE IF s[1] = a /\ s[2] = b
         THEN rep \o replaceAll(SubSeq(s, 3, Len(s)), a, b, rep)
         ELSE <<s[1]>> \o replaceAll(Tail(s), a, b, rep)

\* Variant: the escaped backslash decoded first.
decodeCodeBackslashFirst(codeRaw) ==
    replaceAll(
        replaceAll(
            replaceAll(
                replaceAll(codeRaw, BS, BS, <<BS>>),
                BS, "n", <<NL>>),
            BS, Q, <<Q>>),
        BS, "t", <<SP, SP>>)

decodeCode(codeRaw) ==
    replaceAll(
        replaceAll(
            replaceAll(
                replaceAll(codeRaw, BS, "n", <<NL>>),
                BS, Q, <<Q>>),
            BS, BS, <<BS>>),
        BS, "t", <<SP, SP>>)

\* Variant: the three fields decoded alike.
parsePartialJsonDecodesAll(jsonStr) ==
    [mutationName |-> decodeCode(extract(jsonStr, mutationNameKey)),
     reasoning |-> decodeCode(extract(jsonStr, reasoningKey)),
     p5Code |-> decodeCode(extract(jsonStr, p5CodeKey))]

parsePartialJson(jsonStr) ==
    LET codeRaw == extract(jsonStr, p5CodeKey)
    IN [mutationName |-> extract(jsonStr, mutationNameKey),
        reasoning |-> extract(jsonStr, reasoningKey),
        p5Code |-> IF codeRaw # <<>> THEN decodeCode(codeRaw) ELSE <<>>]

-----------------------------------------------------------------------------
(* TerminalPanel *)

ResetThreshold == 10

EmptyData == [mutationName |-> <<>>, reasoning |-> <<>>, p5Code |-> <<>>]

\* useMemo displayData
computeDisplayData(gen, buf, dat) ==
    IF gen /\ buf # <<>> THEN parsePartialJson(buf)
    ELSE IF dat # <<>> THEN dat[1]
    ELSE EmptyData

\* Variant: the cache is written at every render, empty code included.
renderPanelAlwaysCaches(gen, buf, dat, ref, depsChanged) ==
    LET dd == computeDisplayData(gen, buf, dat)
        shown == IF dd.p5Code # <<>> THEN dd.p5Code ELSE dd.p5Code
    IN [displayData |-> dd,
        codeToDisplay |-> shown,
        lastValidCodeRef |-> IF depsChanged /\ gen /\ Len(buf) < ResetThreshold
                             THEN <<>> ELSE dd.p5Code]

\* One render of the panel followed by its effects: the display data, the
\* code shown, and the cache as the reset effect leaves it.  The reset
\* effect runs when one of generationStartTime, isGenerating and
\* streamBuffer differs from the render before (depsChanged).
renderPanel(gen, buf, dat, ref, depsChanged) ==
    LET dd == computeDisplayData(gen, buf, dat)
        cached == IF dd.p5Code # <<>> THEN dd.p5Code ELSE ref
        shown == IF dd.p5Code # <<>> THEN dd.p5Code ELSE cached
    IN [displayData |-> dd,
        codeToDisplay |-> shown,
        lastValidCodeRef |-> IF depsChanged /\ gen /\ Len(buf) < ResetThreshold
                             THEN <<>> ELSE cached]

\* The render of the panel with the props gen, buf, dat and start, after
\* the render the current state holds.
Rendered(gen, buf, dat, start) ==
    LET r == renderPanel(gen, buf, dat, lastValidCodeRef,
                         \/ start # generationStartTime
                         \/ gen # isGenerating
                         \/ buf # streamBuffer)
    IN /\ displayData' = r.displayData
       /\ codeToDisplay' = r.codeToDisplay
       /\ lastValidCodeRef' = r.lastValidCodeRef

-----------------------------------------------------------------------------
(* The generation source *)

MaxSessions == 2
MaxStep == 3
MaxChunks == 4

Min(a, b) == IF a < b THEN a ELSE b

RECURSIVE Flatten(_)
Flatten(ss) == IF ss = <<>> THEN <<>> ELSE Head(ss) \o Flatten(Tail(ss))

\* JSON.stringify of one character of a string value.
jsonEscape(c) ==
    CASE c = Q -> <<BS, Q>>
      [] c = BS -> <<BS, BS>>
      [] c = NL -> <<BS, "n">>
      [] c = TAB -> <<BS, "t">>
      [] OTHER -> <<c>>

jsonQuote(v) == <<Q>> \o Flatten([i \in 1..Len(v) |-> jsonEscape(v[i])]) \o <<Q>>

\* JSON.stringify({mutationName, reasoning, p5Code}): the well-formed text
\* the generation source is asked to produce.
JsonStringify(v) ==
    <<"{">> \o jsonQuote(mutationNameKey) \o <<COLON>> \o jsonQuote(v.mutationName)
    \o <<",">> \o jsonQuote(reasoningKey) \o <<COLON>> \o jsonQuote(v.reasoning)
    \o <<",">> \o jsonQuote(p5CodeKey) \o <<COLON>> \o jsonQuote(v.p5Code)
    \o <<"}">>

NameVals == {<<"H", "i">>, <<"a", Q>>}
ReasonVals == {<<"o", "k">>, <<NL, "b">>}
CodeVals == {<<>>,
             <<"a", NL, "b">>,
             <<"a", Q>>,
             <<"a", TAB>>,
             <<BS, "n">>,
             <<"a", BS, "t">>}

Objects == [mutationName : NameVals, reasoning : ReasonVals, p5Code : CodeVals]

\* Objects that also hold a nested object with one string property, before
\* or after the three fields.
metaKey == <<"m", "e", "t", "a">>
idKey == <<"i", "d">>

NestedObjects ==
    [mutationName : NameVals,
     reasoning : {<<"o", "k">>},
     p5Code : {<<"a", NL>>},
     meta : [key : {mutationNameKey, p5CodeKey, idKey},
             value : {<<"x">>},
             first : BOOLEAN]]

\* The text of a string value between its quotes.
jsonBody(v) == Flatten([i \in 1..Len(v) |-> jsonEscape(v[i])])

\* JSON.stringify of an object with the nested object as first or as last
\* property.
JsonStringifyNested(v) ==
    LET nested == jsonQuote(metaKey) \o <<COLON, "{">> \o jsonQuote(v.meta.key)
                  \o <<COLON>> \o jsonQuote(v.meta.value) \o <<"}">>
        fields == jsonQuote(mutationNameKey) \o <<COLON>> \o jsonQuote(v.mutationName)
                  \o <<",">> \o jsonQuote(reasoningKey) \o <<COLON>> \o jsonQuote(v.reasoning)
                  \o <<",">> \o jsonQuote(p5CodeKey) \o <<COLON>> \o jsonQuote(v.p5Code)
    IN IF v.meta.first
       THEN <<"{">> \o nested \o <<",">> \o fields \o <<"}">>
       ELSE <<"{">> \o fields \o <<",">> \o nested \o <<"}">>

\* Objects whose values spell the key pattern of another field.
EmbeddedObjects ==
    [mutationName : {<<"H", "i">>},
     reasoning : {<<Q>> \o mutationNameKey \o <<Q, COLON, SP, Q, "x", Q>>,
                  <<Q>> \o p5CodeKey \o <<Q, COLON, Q, "y">>,
                  mutationNameKey},
     p5Code : {<<Q>> \o reasoningKey \o <<Q, COLON, Q, "z", Q>>, <<"a">>}]

\* The complete text of the session in progress.
Target ==
    IF values = <<>> THEN <<>>
    ELSE IF "meta" \in DOMAIN values[1] THEN JsonStringifyNested(values[1])
    ELSE JsonStringify(values[1])

\* Sizes of the first snapshot the panel sees when a session starts.
FirstSnapshots == {0, ResetThreshold - 1, ResetThreshold}

\* Pieces a source that does not keep to the format may deliver.
RawChunks == {<<Q>> \o mutationNameKey \o <<Q, COLON, Q>>,
              <<Q>> \o p5CodeKey \o <<Q, SP, COLON, SP, Q>>,
              <<Q>>, <<BS>>, <<"n">>, <<"t">>, <<NL>>}

IsPrefix(p, s) == Len(p) <= Len(s) /\ SubSeq(s, 1, Len(p)) = p

\* The number of pieces a text of the raw source is made of.
RECURSIVE chunkCount(_)
chunkCount(s) ==
    IF s = <<>> THEN 0
    ELSE LET hs == {c \in RawChunks : Len(c) > 1 /\ IsPrefix(c, s)}
         IN IF hs = {} THEN 1 + chunkCount(Tail(s))
            ELSE LET h == CHOOSE c \in hs : TRUE
                 IN 1 + chunkCount(SubSeq(s, Len(h) + 1, Len(s)))

-----------------------------------------------------------------------------
(* The consumers of the code *)

\* The backtick: a string of the model cannot hold the character itself.
BT == "BACKTICK"

fence == <<BT, BT, BT>>
javascript == <<"j", "a", "v", "a", "s", "c", "r", "i", "p", "t">>
fenceJavascript == fence \o javascript

\* The length of the first alternative that matches at the head of s, 0
\* when none does.
RECURSIVE matchedLength(_, _)
matchedLength(s, alts) ==
    IF alts = <<>> THEN 0
    ELSE IF IsPrefix(Head(alts), s) THEN Len(Head(alts))
    ELSE matchedLength(s, Tail(alts))

\* s.replace(/alt1|alt2/g, ""): the matches are removed from left to right,
\* the scan resuming after each match.
RECURSIVE removeMatches(_, _)
removeOrKeep(n, s, alts) ==
    IF n > 0 THEN removeMatches(SubSeq(s, n + 1, Len(s)), alts)
    ELSE <<Head(s)>> \o removeMatches(Tail(s), alts)

removeMatches(s, alts) ==
    IF s = <<>> THEN <<>>
    ELSE removeOrKeep(matchedLength(s, alts), s, alts)

RECURSIVE trimStart(_)
trimStart(s) ==
    IF s # <<>> /\ IsSpace(Head(s)) THEN trimStart(Tail(s)) ELSE s

RECURSIVE trimEnd(_)
trimEnd(s) ==
    IF s # <<>> /\ IsSpace(s[Len(s)]) THEN trimEnd(SubSeq(s, 1, Len(s) - 1))
    ELSE s

trim(s) == trimEnd(trimStart(s))

\* Variant: the bare fence removed before the fence with its language tag.
cleanCodeFenceFirst(c) ==
    trim(removeMatches(removeMatches(c, <<fence>>), <<fenceJavascript>>))

\* P5Canvas and generateExportPack: the fences with the language tag are
\* replaced by "", then the bare fences, then the text is trimmed.
cleanCode(c) ==
    trim(removeMatches(removeMatches(c, <<fenceJavascript>>), <<fence>>))

\* PulseEngine: one replacement by "" of the fence with the language tag or
\* else the bare fence, then the text is trimmed.
sketchCode(c) == trim(removeMatches(c, <<fenceJavascript, fence>>))

Consumers == {"P5Canvas", "PulseEngine", "generateExportPack"}

\* The text each consumer hands to new Function for the prop c.
Compiled(c) ==
    [P5Canvas |-> cleanCode(c),
     PulseEngine |-> sketchCode(c),
     generateExportPack |-> cleanCode(c)]

-----------------------------------------------------------------------------
(* The p5 instance of P5Canvas *)

\* The characters of a name in the texts given to the components.
IsLetter(c) == c \in {"a", "c", "i", "j", "p", "r", "s", "t", "v"}

\* The keyword of a declaration, the one reserved word the letters spell.
varWord == <<"v", "a", "r">>

\* The position after the run of letters that holds position i.
RECURSIVE nameEnd(_, _)
nameEnd(text, i) ==
    IF i <= Len(text) /\ IsLetter(text[i]) THEN nameEnd(text, i + 1) ELSE i

\* The text from position i on is accepted as a function body, over texts
\* made of letters, backticks, white space and other characters.  at is
\* "start" at the beginning of a statement, "value" after an expression on
\* the same line, "template" inside a template, "var" after the keyword var
\* and "declared" after the name it declares.  A name or a declaration may
\* not follow an expression or a declaration on the same line; var takes a
\* name other than var, on its line or a later one; a template after an
\* expression is its tagged form and none may follow var or a declaration
\* on the same line; a line terminator ends the statement; a template has
\* to be closed; any other character (a closing brace) is refused.
RECURSIVE acceptedFrom(_, _, _)
acceptedWord(text, j, isVar, at) ==
    IF at = "var" THEN ~isVar /\ acceptedFrom(text, j, "declared")
    ELSE at = "start" /\ acceptedFrom(text, j, IF isVar THEN "var" ELSE "value")

acceptedFrom(text, i, at) ==
    IF i > Len(text) THEN at \notin {"template", "var"}
    ELSE IF at = "template"
    THEN acceptedFrom(text, i + 1, IF text[i] = BT THEN "value" ELSE "template")
    ELSE IF text[i] = BT
    THEN at \in {"start", "value"} /\ acceptedFrom(text, i + 1, "template")
    ELSE IF IsLetter(text[i])
    THEN acceptedWord(text, nameEnd(text, i),
                      SubSeq(text, i, nameEnd(text, i) - 1) = varWord, at)
    ELSE IF IsLineTerminator(text[i])
    THEN acceptedFrom(text, i + 1, IF at = "var" THEN "var" ELSE "start")
    ELSE IF IsSpace(text[i])
    THEN acceptedFrom(text, i + 1, IF at = "value" THEN "value" ELSE at)
    ELSE FALSE

\* new Function('p', text) returns.
Compiles(text) == acceptedFrom(text, 1, "start")

\* The names the text from position i on declares with var; at is "var"
\* after the keyword, "template" inside a template, "code" elsewhere.
RECURSIVE declaredFrom(_, _, _)
declaredWord(text, j, word, at) ==
    IF at = "var" THEN {word} \cup declaredFrom(text, j, "code")
    ELSE declaredFrom(text, j, IF word = varWord THEN "var" ELSE "code")

declaredFrom(text, i, at) ==
    IF i > Len(text) THEN {}
    ELSE IF at = "template"
    THEN declaredFrom(text, i + 1, IF text[i] = BT THEN "code" ELSE "template")
    ELSE IF text[i] = BT THEN declaredFrom(text, i + 1, "template")
    ELSE IF IsLetter(text[i])
    THEN declaredWord(text, nameEnd(text, i), SubSeq(text, i, nameEnd(text, i) - 1), at)
    ELSE declaredFrom(text, i + 1, at)

\* The sketch throws when the text from position i on runs: it names
\* something that is neither its parameter p nor declared anywhere in the
\* text, or it applies an expression to a template.  at is as in
\* declaredFrom; pending tells that an expression came before in the
\* statement or on the lines before it, which a declaration ends.
RECURSIVE throwsFrom(_, _, _, _, _)
throwsWord(text, j, word, at, pending, declared) ==
    IF at = "var" THEN throwsFrom(text, j, "code", FALSE, declared)
    ELSE IF word = varWord THEN throwsFrom(text, j, "var", pending, declared)
    ELSE \/ word # <<"p">> /\ word \notin declared
         \/ throwsFrom(text, j, "code", TRUE, declared)

throwsFrom(text, i, at, pending, declared) ==
    IF i > Len(text) THEN FALSE
    ELSE IF at = "template"
    THEN throwsFrom(text, i + 1, IF text[i] = BT THEN "code" ELSE "template",
                    TRUE, declared)
    ELSE IF text[i] = BT
    THEN pending \/ throwsFrom(text, i + 1, "template", TRUE, declared)
    ELSE IF IsLetter(text[i])
    THEN throwsWord(text, nameEnd(text, i), SubSeq(text, i, nameEnd(text, i) - 1),
                    at, pending, declared)
    ELSE throwsFrom(text, i + 1, at, pending \/ ~IsSpace(text[i]), declared)

\* The sketch throws when it runs.
Throws(text) == throwsFrom(text, 1, "code", FALSE, declaredFrom(text, 1, "code"))

\* new window.p5(...) returns.  An error of the running sketch is caught
\* inside the closure, and the handler draws with the instance before its
\* setup has run: whether that throws in turn, and with it the constructor,
\* is left to the library.
Constructs(text) == IF Throws(text) THEN BOOLEAN ELSE {TRUE}

\* Variant: a cleanup that removes nothing.
cleanupCodeEffectMissing(has, ref, alive) == alive

\* The cleanup of the last run of the code effect, when that run returned
\* one: the instance of the ref is removed.
cleanupCodeEffect(has, ref, alive) ==
    IF has /\ ref # <<>> THEN alive \ {ref[1]} ELSE alive

\* The code effect, canvasRef being set, for the code whose cleaned text is
\* cleaned.  Without window.p5 it returns at once.  Otherwise the instance
\* of the ref is removed, the cleaned text is compiled, and a new instance
\* is created and kept in the ref unless the compilation or the constructor
\* throws.  The cleanup is returned in each case.
runCodeEffect(cleaned, ref, alive, n, loaded, constructs) ==
    IF ~loaded
    THEN [p5InstanceRef |-> ref, instances |-> alive, created |-> n,
          hasCleanup |-> FALSE]
    ELSE IF Compiles(cleaned) /\ constructs
    THEN [p5InstanceRef |-> <<n + 1>>,
          instances |-> (IF ref # <<>> THEN alive \ {ref[1]} ELSE alive) \cup {n + 1},
          created |-> n + 1,
          hasCleanup |-> TRUE]
    ELSE [p5InstanceRef |-> ref,
          instances |-> IF ref # <<>> THEN alive \ {ref[1]} ELSE alive,
          created |-> n,
          hasCleanup |-> TRUE]

-----------------------------------------------------------------------------
(* Payloads built piece by piece *)

MaxPieces == 5

\* Pieces of a payload.
CodePieces == {fence, <<BT>>, javascript, <<"a">>, <<NL>>}

\* The number of pieces a payload is made of, a fence and the language tag
\* counting as one piece each.
RECURSIVE pieceCount(_)
pieceCount(s) ==
    IF s = <<>> THEN 0
    ELSE IF IsPrefix(fence, s) THEN 1 + pieceCount(SubSeq(s, 4, Len(s)))
    ELSE IF IsPrefix(javascript, s) THEN 1 + pieceCount(SubSeq(s, 11, Len(s)))
    ELSE 1 + pieceCount(Tail(s))

-----------------------------------------------------------------------------
(* The components of the application before anything has happened *)

\* App: no analysis requested yet, the key of the build present.
InitApp ==
    /\ apiKey = "key"
    /\ isAnalyzing = FALSE
    /\ insight = <<>>
    /\ requests = <<>>

\* AISuiteModule: nothing typed, nothing sent.
InitChat ==
    /\ input = ""
    /\ messages = <<>>
    /\ sends = <<>>

\* No export has been started.
InitExport == exports = <<>>

\* P5Canvas: not mounted yet.
InitCanvas ==
    /\ mounted = FALSE
    /\ p5InstanceRef = <<>>
    /\ instances = {}
    /\ created = 0
    /\ p5Loaded = FALSE
    /\ hasCleanup = FALSE

-----------------------------------------------------------------------------
(* Sessions of a source that keeps to the format *)

Init ==
    /\ streamBuffer = <<>>
    /\ isGenerating = FALSE
    /\ data = <<>>
    /\ generationStartTime = 0
    /\ values = <<>>
    /\ lastValidCodeRef = <<>>
    /\ displayData = EmptyData
    /\ codeToDisplay = <<>>
    /\ code = <<>>
    /\ compiled = Compiled(<<>>)
    /\ InitApp /\ InitChat /\ InitExport /\ InitCanvas

StartGeneration ==
    /\ ~isGenerating
    /\ generationStartTime < MaxSessions
    /\ \E v \in Objects, k \in FirstSnapshots :
          /\ values' = <<v>>
          /\ streamBuffer' = SubSeq(JsonStringify(v), 1, k)
    /\ isGenerating' = TRUE
    /\ generationStartTime' = generationStartTime + 1
    /\ data' = <<>>
    /\ Rendered(TRUE, streamBuffer', data', generationStartTime + 1)
    /\ UNCHANGED <<code, compiled, appVars, chatVars, exports, canvasVars>>

StreamChunk ==
    /\ isGenerating
    /\ values # <<>>
    /\ Len(streamBuffer) < Len(Target)
    /\ \E k \in 1..MaxStep :
          streamBuffer' = SubSeq(Target, 1, Min(Len(streamBuffer) + k, Len(Target)))
    /\ Rendered(TRUE, streamBuffer', data, generationStartTime)
    /\ UNCHANGED <<isGenerating, data, generationStartTime, values, code, compiled>>
    /\ UNCHANGED <<appVars, chatVars, exports, canvasVars>>

FinishGeneration ==
    /\ isGenerating
    /\ values # <<>>
    /\ streamBuffer = Target
    /\ isGenerating' = FALSE
    /\ data' = values
    /\ Rendered(FALSE, streamBuffer, data', generationStartTime)
    /\ UNCHANGED <<streamBuffer, generationStartTime, values, code, compiled>>
    /\ UNCHANGED <<appVars, chatVars, exports, canvasVars>>

\* A render with the props unchanged, asked for by a state setter of the
\* panel: setIsCodeOpen and setLiveElapsed in the timer effect and its
\* interval, or the user opening and closing the code.
Rerender ==
    /\ Rendered(isGenerating, streamBuffer, data, generationStartTime)
    /\ UNCHANGED <<streamBuffer, isGenerating, data, generationStartTime, values,
                   code, compiled>>
    /\ UNCHANGED <<appVars, chatVars, exports, canvasVars>>

Next == StartGeneration \/ StreamChunk \/ FinishGeneration \/ Rerender

Spec == Init /\ [][Next]_vars

-----------------------------------------------------------------------------
(* One session of a source that does not keep to the format *)

InitRaw ==
    /\ streamBuffer = <<>>
    /\ isGenerating = TRUE
    /\ data = <<>>
    /\ generationStartTime = 1
    /\ values = <<>>
    /\ lastValidCodeRef = <<>>
    /\ displayData = EmptyData
    /\ codeToDisplay = <<>>
    /\ code = <<>>
    /\ compiled = Compiled(<<>>)
    /\ InitApp /\ InitChat /\ InitExport /\ InitCanvas

AppendChunk ==
    /\ isGenerating
    /\ values = <<>>
    /\ chunkCount(streamBuffer) < MaxChunks
    /\ \E c \in RawChunks : streamBuffer' = streamBuffer \o c
    /\ Rendered(TRUE, streamBuffer', data, generationStartTime)
    /\ UNCHANGED <<isGenerating, data, generationStartTime, values, code, compiled>>
    /\ UNCHANGED <<appVars, chatVars, exports, canvasVars>>

FinishRaw ==
    /\ isGenerating
    /\ values = <<>>
    /\ isGenerating' = FALSE
    /\ Rendered(FALSE, streamBuffer, data, generationStartTime)
    /\ UNCHANGED <<streamBuffer, data, generationStartTime, values, code, compiled>>
    /\ UNCHANGED <<appVars, chatVars, exports, canvasVars>>

NextRaw == AppendChunk \/ FinishRaw \/ Rerender

SpecRaw == InitRaw /\ [][NextRaw]_vars

-----------------------------------------------------------------------------
(* One session over a well-formed text that holds a nested object *)

InitNested ==
    /\ streamBuffer = <<>>
    /\ isGenerating = TRUE
    /\ data = <<>>
    /\ generationStartTime = 1
    /\ values \in {<<v>> : v \in NestedObjects}
    /\ lastValidCodeRef = <<>>
    /\ displayData = EmptyData
    /\ codeToDisplay = <<>>
    /\ code = <<>>
    /\ compiled = Compiled(<<>>)
    /\ InitApp /\ InitChat /\ InitExport /\ InitCanvas

NextNested == StreamChunk \/ FinishGeneration \/ Rerender

SpecNested == InitNested /\ [][NextNested]_vars

-----------------------------------------------------------------------------
(* One session over a text whose values spell key patterns *)

InitEmbedded ==
    /\ streamBuffer = <<>>
    /\ isGenerating = TRUE
    /\ data = <<>>
    /\ generationStartTime = 1
    /\ values \in {<<v>> : v \in EmbeddedObjects}
    /\ lastValidCodeRef = <<>>
    /\ displayData = EmptyData
    /\ codeToDisplay = <<>>
    /\ code = <<>>
    /\ compiled = Compiled(<<>>)
    /\ InitApp /\ InitChat /\ InitExport /\ InitCanvas

NextEmbedded == StreamChunk \/ FinishGeneration \/ Rerender

SpecEmbedded == InitEmbedded /\ [][NextEmbedded]_vars

-----------------------------------------------------------------------------
(* The consumers, given a payload that grows piece by piece *)

\* P5Canvas is mounted with the empty code and window.p5 is defined: the
\* first run of the code effect has created the first instance.
InitCode ==
    /\ streamBuffer = <<>>
    /\ isGenerating = FALSE
    /\ data = <<>>
    /\ generationStartTime = 0
    /\ values = <<>>
    /\ lastValidCodeRef = <<>>
    /\ displayData = EmptyData
    /\ codeToDisplay = <<>>
    /\ code = <<>>
    /\ compiled = Compiled(<<>>)
    /\ InitApp /\ InitChat /\ InitExport
    /\ mounted = TRUE
    /\ p5Loaded = TRUE
    /\ p5InstanceRef = runCodeEffect(<<>>, <<>>, {}, 0, TRUE, TRUE).p5InstanceRef
    /\ instances = runCodeEffect(<<>>, <<>>, {}, 0, TRUE, TRUE).instances
    /\ created = runCodeEffect(<<>>, <<>>, {}, 0, TRUE, TRUE).created
    /\ hasCleanup = runCodeEffect(<<>>, <<>>, {}, 0, TRUE, TRUE).hasCleanup

\* The prop code grows by a piece: the cleanup of the last run of the code
\* effect, then the effect on the new code.  compiled holds the text the
\* effect hands to new Function, and the text PulseEngine and
\* generateExportPack hand to it for the same code.
AppendPiece ==
    /\ pieceCount(code) < MaxPieces
    /\ \E c \in CodePieces : code' = code \o c
    /\ compiled' = Compiled(code')
    /\ \E constructs \in Constructs(compiled'.P5Canvas) :
          LET run == runCodeEffect(compiled'.P5Canvas, p5InstanceRef,
                         cleanupCodeEffect(hasCleanup, p5InstanceRef, instances),
                         created, p5Loaded, constructs)
          IN /\ p5InstanceRef' = run.p5InstanceRef
             /\ instances' = run.instances
             /\ created' = run.created
             /\ hasCleanup' = run.hasCleanup
    /\ UNCHANGED <<mounted, p5Loaded>>
    /\ UNCHANGED <<panelVars, appVars, chatVars, exports>>

NextCode == AppendPiece

SpecCode == InitCode /\ [][NextCode]_vars

-----------------------------------------------------------------------------
(* App.triggerAI and analyzeWealth *)

MaxRequests == 4

\* Values of process.env.API_KEY: not defined, the empty string, a key.
EnvValues == {"undefined", "", "key"}

\* !apiKey
Falsy(v) == v \in {"undefined", ""}

\* Variant: only a key that is not defined is turned down.
startAnalyzeWealthUndefinedOnly(key) ==
    IF key = "undefined"
    THEN [status |-> "rejected", error |-> "API_KEY_MISSING",
          client |-> FALSE, issued |-> FALSE, done |-> FALSE, outcome |-> "running"]
    ELSE [status |-> "pending", error |-> "",
          client |-> TRUE, issued |-> TRUE, done |-> FALSE, outcome |-> "running"]

\* analyzeWealth up to its await: the promise it returns (status, error),
\* whether a GoogleGenAI client was created and generateContent issued.
\* done and outcome belong to the triggerAI invocation that made the call.
startAnalyzeWealth(key) ==
    IF Falsy(key)
    THEN [status |-> "rejected", error |-> "API_KEY_MISSING",
          client |-> FALSE, issued |-> FALSE, done |-> FALSE, outcome |-> "running"]
    ELSE [status |-> "pending", error |-> "",
          client |-> TRUE, issued |-> TRUE, done |-> FALSE, outcome |-> "running"]

\* Variant: the catch block clears the insight.
continueTriggerAIClearsInsight(req, ins, i, ok) ==
    IF req.status = "pending" /\ ok
    THEN [insight |-> <<i>>,
          isAnalyzing |-> FALSE,
          request |-> [req EXCEPT !.status = "fulfilled", !.done = TRUE,
                                  !.outcome = "returned"]]
    ELSE [insight |-> <<>>,
          isAnalyzing |-> FALSE,
          request |-> [req EXCEPT !.status = "rejected", !.done = TRUE,
                                  !.error = IF @ = "" THEN "FAILED" ELSE @,
                                  !.outcome = "returned"]]

\* triggerAI after its await, for invocation i: the response is good (ok)
\* and becomes the insight, or analyzeWealth has rejected and the error is
\* logged; finally isAnalyzing is set to false.
continueTriggerAI(req, ins, i, ok) ==
    IF req.status = "pending" /\ ok
    THEN [insight |-> <<i>>,
          isAnalyzing |-> FALSE,
          request |-> [req EXCEPT !.status = "fulfilled", !.done = TRUE,
                                  !.outcome = "returned"]]
    ELSE [insight |-> ins,
          isAnalyzing |-> FALSE,
          request |-> [req EXCEPT !.status = "rejected", !.done = TRUE,
                                  !.error = IF @ = "" THEN "FAILED" ELSE @,
                                  !.outcome = "returned"]]

InitWealth ==
    /\ streamBuffer = <<>>
    /\ isGenerating = FALSE
    /\ data = <<>>
    /\ generationStartTime = 0
    /\ values = <<>>
    /\ lastValidCodeRef = <<>>
    /\ displayData = EmptyData
    /\ codeToDisplay = <<>>
    /\ code = <<>>
    /\ compiled = Compiled(<<>>)
    /\ apiKey \in EnvValues
    /\ isAnalyzing = FALSE
    /\ insight = <<>>
    /\ requests = <<>>
    /\ InitChat /\ InitExport /\ InitCanvas

\* A promise that is already rejected: the code awaiting it runs before
\* any other event is handled.
MicrotaskPending ==
    \E i \in 1..Len(requests) : ~requests[i].done /\ requests[i].status = "rejected"

\* triggerAI up to its await, from the effect or from the refresh button.
TriggerAI ==
    /\ Len(requests) < MaxRequests
    /\ ~MicrotaskPending
    /\ isAnalyzing' = TRUE
    /\ requests' = Append(requests, startAnalyzeWealth(apiKey))
    /\ UNCHANGED <<apiKey, insight>>
    /\ UNCHANGED <<panelVars, code, compiled, chatVars, exports, canvasVars>>

\* The promise of analyzeWealth settles and triggerAI runs to its end.
SettleRequest ==
    /\ \E i \in 1..Len(requests), ok \in BOOLEAN :
          /\ ~requests[i].done
          /\ requests[i].status = "rejected" \/ ~MicrotaskPending
          /\ insight' = continueTriggerAI(requests[i], insight, i, ok).insight
          /\ isAnalyzing' = continueTriggerAI(requests[i], insight, i, ok).isAnalyzing
          /\ requests' = [requests EXCEPT
                             ![i] = continueTriggerAI(requests[i], insight, i, ok).request]
    /\ UNCHANGED apiKey
    /\ UNCHANGED <<panelVars, code, compiled, chatVars, exports, canvasVars>>

NextWealth == TriggerAI \/ SettleRequest

SpecWealth == InitWealth /\ [][NextWealth]_vars

-----------------------------------------------------------------------------
(* AISuiteModule.handleSend *)

MaxSends == 3

\* Texts the user types.
Inputs == {"a", "b"}

\* Texts of a response: response.text may be empty.
ResponseTexts == {"", "r"}

ThinkingFault == "Thinking logic fault."

\* handleSend up to its await.  A message carries, besides role and
\* content, the number of the handleSend call it belongs to (turn), which
\* the objects of the code do not hold.
handleSend(inp, msgs, snd) ==
    IF inp = ""
    THEN [input |-> inp, messages |-> msgs, sends |-> snd]
    ELSE [input |-> "",
          messages |-> Append(msgs, [role |-> "user", content |-> inp,
                                     turn |-> Len(snd) + 1]),
          sends |-> Append(snd, [contents |-> inp, status |-> "pending"])]

\* The user edits the input field.
TypeInput ==
    /\ \E t \in Inputs \cup {""} : input' = t
    /\ UNCHANGED <<messages, sends>>
    /\ UNCHANGED <<panelVars, code, compiled, appVars, exports, canvasVars>>

\* The send button or the Enter key.
HandleSend ==
    /\ input = "" \/ Len(sends) < MaxSends
    /\ input' = handleSend(input, messages, sends).input
    /\ messages' = handleSend(input, messages, sends).messages
    /\ sends' = handleSend(input, messages, sends).sends
    /\ UNCHANGED <<panelVars, code, compiled, appVars, exports, canvasVars>>

\* generateContent of call k resolves and handleSend appends the answer.
Respond ==
    /\ \E k \in 1..Len(sends), t \in ResponseTexts :
          /\ sends[k].status = "pending"
          /\ sends' = [sends EXCEPT ![k].status = "answered"]
          /\ messages' = Append(messages,
                                [role |-> "assistant",
                                 content |-> IF t = "" THEN ThinkingFault ELSE t,
                                 turn |-> k])
    /\ UNCHANGED input
    /\ UNCHANGED <<panelVars, code, compiled, appVars, exports, canvasVars>>

\* generateContent of call k rejects: the error is logged.
RespondFails ==
    /\ \E k \in 1..Len(sends) :
          /\ sends[k].status = "pending"
          /\ sends' = [sends EXCEPT ![k].status = "failed"]
    /\ UNCHANGED <<input, messages>>
    /\ UNCHANGED <<panelVars, code, compiled, appVars, exports, canvasVars>>

NextChat == TypeInput \/ HandleSend \/ Respond \/ RespondFails

SpecChat == Init /\ [][NextChat]_vars

-----------------------------------------------------------------------------
(* generateExportPack *)

MaxExports == 3

\* The executor of the promise: the container is appended, then the p5
\* instance is constructed.  When the constructor throws (window.p5 is
\* missing, or the sketch throws on code that does not compile) the
\* executor throws and the promise is rejected; otherwise the capture is
\* scheduled.
startExport(constructs) ==
    IF constructs
    THEN [container |-> TRUE, instance |-> "alive", promise |-> "pending",
          settled |-> 0, phase |-> "scheduled"]
    ELSE [container |-> TRUE, instance |-> "none", promise |-> "rejected",
          settled |-> 1, phase |-> "over"]

\* The end of the capture callback: resolve() or reject(err), then the
\* finally block removes the p5 instance and the container.
finishExport(e, ok) ==
    [e EXCEPT !.promise = IF ok THEN "resolved" ELSE "rejected",
              !.settled = @ + 1,
              !.instance = "removed",
              !.container = FALSE,
              !.phase = "over"]

CallExport ==
    /\ Len(exports) < MaxExports
    /\ \E constructs \in BOOLEAN : exports' = Append(exports, startExport(constructs))
    /\ UNCHANGED <<panelVars, code, compiled, appVars, chatVars, canvasVars>>

\* The timer fires: the frames are captured and the archive is requested,
\* or the capture throws.
CaptureFrames ==
    /\ \E i \in 1..Len(exports), ok \in BOOLEAN :
          /\ exports[i].phase = "scheduled"
          /\ exports' = [exports EXCEPT
                            ![i] = IF ok THEN [@ EXCEPT !.phase = "zipping"]
                                   ELSE finishExport(@, FALSE)]
    /\ UNCHANGED <<panelVars, code, compiled, appVars, chatVars, canvasVars>>

\* zip.generateAsync settles.
ArchiveDone ==
    /\ \E i \in 1..Len(exports), ok \in BOOLEAN :
          /\ exports[i].phase = "zipping"
          /\ exports' = [exports EXCEPT ![i] = finishExport(@, ok)]
    /\ UNCHANGED <<panelVars, code, compiled, appVars, chatVars, canvasVars>>

NextExport == CallExport \/ CaptureFrames \/ ArchiveDone

SpecExport == Init /\ [][NextExport]_vars

-----------------------------------------------------------------------------
(* The p5 instances of P5Canvas *)

MaxInstances == 10

\* Code given to the component: a body that runs, one that new Function
\* rejects, one that throws when it runs, a fenced body, and a declaration.
CanvasCodes == {<<"p">>, <<"}">>, <<"a">>, fenceJavascript \o <<NL, "p">>,
                varWord \o <<SP, "a">>}

\* The script of p5 has been evaluated.
LoadP5 ==
    /\ ~p5Loaded
    /\ p5Loaded' = TRUE
    /\ UNCHANGED <<mounted, p5InstanceRef, instances, created, hasCleanup>>
    /\ UNCHANGED <<panelVars, code, compiled, appVars, chatVars, exports>>

MountCanvas ==
    /\ ~mounted
    /\ created < MaxInstances
    /\ mounted' = TRUE
    /\ \E c \in CanvasCodes : code' = c
    /\ compiled' = IF p5Loaded THEN Compiled(code') ELSE compiled
    /\ \E constructs \in Constructs(cleanCode(code')) :
          LET run == runCodeEffect(cleanCode(code'), <<>>, instances, created,
                                   p5Loaded, constructs)
          IN /\ p5InstanceRef' = run.p5InstanceRef
             /\ instances' = run.instances
             /\ created' = run.created
             /\ hasCleanup' = run.hasCleanup
    /\ UNCHANGED p5Loaded
    /\ UNCHANGED <<panelVars, appVars, chatVars, exports>>

\* The prop changes: the cleanup of the last run, then the effect.
ChangeCode ==
    /\ mounted
    /\ created < MaxInstances
    /\ \E c \in CanvasCodes \ {code} : code' = c
    /\ compiled' = IF p5Loaded THEN Compiled(code') ELSE compiled
    /\ \E constructs \in Constructs(cleanCode(code')) :
          LET run == runCodeEffect(cleanCode(code'), p5InstanceRef,
                         cleanupCodeEffect(hasCleanup, p5InstanceRef, instances),
                         created, p5Loaded, constructs)
          IN /\ p5InstanceRef' = run.p5InstanceRef
             /\ instances' = run.instances
             /\ created' = run.created
             /\ hasCleanup' = run.hasCleanup
    /\ UNCHANGED <<mounted, p5Loaded>>
    /\ UNCHANGED <<panelVars, appVars, chatVars, exports>>

\* The component is unmounted: the cleanup runs, the ref goes with it.
UnmountCanvas ==
    /\ mounted
    /\ mounted' = FALSE
    /\ instances' = cleanupCodeEffect(hasCleanup, p5InstanceRef, instances)
    /\ p5InstanceRef' = <<>>
    /\ hasCleanup' = FALSE
    /\ UNCHANGED <<code, compiled, created, p5Loaded>>
    /\ UNCHANGED <<panelVars, appVars, chatVars, exports>>

NextCanvas == LoadP5 \/ MountCanvas \/ ChangeCode \/ UnmountCanvas

SpecCanvas == Init /\ [][NextCanvas]_vars

-----------------------------------------------------------------------------
(* Occurrences of a field in a text, stated by position.                   *)
(* A position of a run is escaped when an odd number of backslashes of the *)
(* run stand right before it.                                              *)

Chars == {Q, BS, NL, TAB, SP, COLON, "{", "}", ",", "H", "i", "o", "k", "a", "b",
          "m", "u", "t", "n", "N", "e", "r", "s", "g", "p", "5", "C", "d"}

Escaped(s, a, p) ==
    \E m \in 1..(p - a) :
        /\ m % 2 = 1
        /\ \A q \in (p - m)..(p - 1) : s[q] = BS
        /\ (p - m = a \/ s[p - m - 1] # BS)

\* Positions a..b hold only plain characters and complete escape pairs.
ValidRun(s, a, b) ==
    \A p \in a..b :
        \/ Escaped(s, a, p)
        \/ /\ s[p] # Q
           /\ s[p] = BS => (p < b /\ ~IsLineTerminator(s[p + 1]))

KeyStarts(s, key) ==
    {i \in 1..(Len(s) - Len(key) - 1) :
        s[i] = Q /\ SubSeq(s, i, i + Len(key) + 1) = <<Q>> \o key \o <<Q>>}

\* The opening quotes of a value whose key starts at i: only white space
\* and one colon stand between the key and the quote.
Opening(s, key, i) ==
    {o \in (i + Len(key) + 3)..Len(s) :
        /\ s[o] = Q
        /\ \E c \in (i + Len(key) + 2)..(o - 1) :
              /\ s[c] = COLON
              /\ \A p \in (i + Len(key) + 2)..(o - 1) : p = c \/ IsSpace(s[p])}

\* <<i, o, e>>: key at i, opening quote at o, closing quote at e.
ClosedOccs(s, key) ==
    UNION {UNION {{<<i, o, e>> : e \in {x \in (o + 1)..Len(s) :
                                          s[x] = Q /\ ValidRun(s, o + 1, x - 1)}}
                  : o \in Opening(s, key, i)}
           : i \in KeyStarts(s, key)}

\* <<i, o>>: key at i, opening quote at o, the value running to the end.
OpenOccs(s, key) ==
    UNION {{<<i, o>> : o \in {x \in Opening(s, key, i) : ValidRun(s, x + 1, Len(s))}}
           : i \in KeyStarts(s, key)}

IsLeftmost(t, occs) == \A u \in occs : t[1] <= u[1]

Generating == isGenerating /\ streamBuffer # <<>>

Text(f, content) == <<"{">> \o jsonQuote(KeyOf(f)) \o <<COLON, Q>> \o content

-----------------------------------------------------------------------------
\* A complete object text, and the empty text.
ScenarioB == Text("mutationName", <<"H", "i", Q, ",">>)
             \o jsonQuote(reasoningKey) \o <<COLON>> \o jsonQuote(<<"o", "k">>)
             \o <<"}">>

CompleteAndEmptyTextHold ==
    /\ \A f \in Fields : parsePartialJson(ScenarioB)[f] \in Seq(Chars)
    /\ parsePartialJson(<<>>) = EmptyData

\* C1: for every input text parsePartialJson returns three strings, and a
\* field that neither pass matches is the empty string.
C1_FieldsAreStrings ==
    /\ CompleteAndEmptyTextHold
    /\ isGenerating =>
          LET r == parsePartialJson(streamBuffer)
          IN \A f \in Fields :
                /\ r[f] \in Seq(Chars)
                /\ (ClosedOccs(streamBuffer, KeyOf(f)) = {}
                    /\ OpenOccs(streamBuffer, KeyOf(f)) = {}) => r[f] = <<>>

\* A text that holds a key none of the two passes matches.
C1_Witness ==
    /\ Generating
    /\ KeyStarts(streamBuffer, mutationNameKey) # {}
    /\ ClosedOccs(streamBuffer, mutationNameKey) = {}
    /\ OpenOccs(streamBuffer, mutationNameKey) = {}
    /\ displayData.mutationName = <<>>

ScenarioBHolds ==
    /\ extract(ScenarioB, mutationNameKey) = <<"H", "i">>
    /\ extract(ScenarioB, reasoningKey) = <<"o", "k">>

\* C2: when a text holds a closed occurrence of a field, extract returns the
\* capture of the leftmost one, whatever open occurrence the text also holds.
C2_ClosedMatchWins ==
    /\ ScenarioBHolds
    /\ isGenerating => \A f \in Fields :
          \A t \in ClosedOccs(streamBuffer, KeyOf(f)) :
              IsLeftmost(t, ClosedOccs(streamBuffer, KeyOf(f)))
              => extract(streamBuffer, KeyOf(f)) = SubSeq(streamBuffer, t[2] + 1, t[3] - 1)

\* A closed and an open occurrence of one field with different captures.
C2_Witness ==
    /\ Generating
    /\ \E t \in ClosedOccs(streamBuffer, mutationNameKey) :
       \E u \in OpenOccs(streamBuffer, mutationNameKey) :
          /\ SubSeq(streamBuffer, t[2] + 1, t[3] - 1)
                # SubSeq(streamBuffer, u[2] + 1, Len(streamBuffer))
          /\ displayData.mutationName = SubSeq(streamBuffer, t[2] + 1, t[3] - 1)

ScenarioA == Text("mutationName", <<"H", "i">>)

ScenarioAHolds == extract(ScenarioA, mutationNameKey) = <<"H", "i">>

\* C3: without a closed occurrence extract returns the run to the end of the
\* leftmost open occurrence, still escaped, and the empty string when there
\* is no open occurrence either.
C3_OpenMatchRunsToEnd ==
    /\ ScenarioAHolds
    /\ isGenerating => \A f \in Fields :
          ClosedOccs(streamBuffer, KeyOf(f)) = {} =>
              /\ \A u \in OpenOccs(streamBuffer, KeyOf(f)) :
                    IsLeftmost(u, OpenOccs(streamBuffer, KeyOf(f)))
                    => extract(streamBuffer, KeyOf(f))
                          = SubSeq(streamBuffer, u[2] + 1, Len(streamBuffer))
              /\ OpenOccs(streamBuffer, KeyOf(f)) = {}
                    => extract(streamBuffer, KeyOf(f)) = <<>>

\* An open value that ends in an escape pair, returned as it stands.
C3_Witness ==
    /\ Generating
    /\ ClosedOccs(streamBuffer, mutationNameKey) = {}
    /\ OpenOccs(streamBuffer, mutationNameKey) # {}
    /\ Len(displayData.mutationName) = 3
    /\ SubSeq(displayData.mutationName, 2, 3) = <<BS, Q>>

\* C4: once a field has a closed occurrence, appending text to the buffer
\* does not change the value parsePartialJson returns for it.
C4_ClosedFieldStable ==
    [][\A f \in Fields :
          (/\ isGenerating /\ isGenerating'
           /\ IsPrefix(streamBuffer, streamBuffer')
           /\ ClosedOccs(streamBuffer, KeyOf(f)) # {})
          => parsePartialJson(streamBuffer')[f] = parsePartialJson(streamBuffer)[f]]_vars

\* A closed field followed by appended text that opens the same key again.
C4_Witness ==
    /\ Generating
    /\ \E t \in ClosedOccs(streamBuffer, p5CodeKey) :
       \E u \in OpenOccs(streamBuffer, p5CodeKey) :
          /\ t[3] < u[1]
          /\ t[2] + 1 < t[3]
          /\ displayData.p5Code = decodeCode(SubSeq(streamBuffer, t[2] + 1, t[3] - 1))

\* The result of the last call of a session: parsePartialJson on the
\* complete text.
FinalResult == parsePartialJson(Target)

SameSession ==
    /\ isGenerating /\ isGenerating'
    /\ generationStartTime' = generationStartTime
    /\ values # <<>>

\* C5: over the growing prefixes of a well-formed text, a field that has
\* been returned non-empty is never returned shorter afterwards, nor with a
\* value that is no prefix of its final value.
C5_Monotone ==
    [][(SameSession /\ streamBuffer # <<>>) =>
          \A f \in Fields :
              displayData[f] # <<>> =>
                  /\ Len(displayData'[f]) >= Len(displayData[f])
                  /\ IsPrefix(displayData'[f], FinalResult[f])]_vars

\* C6: parsePartialJson on the complete JSON text of an object returns the
\* three strings of the object.
C6_RoundTrip ==
    (isGenerating /\ values # <<>> /\ streamBuffer = Target)
    => displayData = values[1]

\* The still-open values of a field whose text ends in an unpaired
\* backslash: the opening quotes o of such occurrences.
DanglingOpenings(s, key) ==
    IF ClosedOccs(s, key) # {} \/ s = <<>> THEN {}
    ELSE UNION {{o \in Opening(s, key, i) :
                    /\ o < Len(s)
                    /\ s[Len(s)] = BS
                    /\ ~Escaped(s, o + 1, Len(s))
                    /\ ValidRun(s, o + 1, Len(s) - 1)}
                : i \in KeyStarts(s, key)}

\* C7: when the buffer ends in an unpaired backslash inside the open value
\* of a field, the field is the content after the opening quote, without
\* the backslash or with it.
C7_DanglingBackslash ==
    Generating =>
        \A f \in {"mutationName", "reasoning"} :
            \A o \in DanglingOpenings(streamBuffer, KeyOf(f)) :
                displayData[f] \in
                    {SubSeq(streamBuffer, o + 1, Len(streamBuffer) - 1),
                     SubSeq(streamBuffer, o + 1, Len(streamBuffer))}

\* The global replacement of the pair a b, by position.
RECURSIVE ReplacedFrom(_, _, _, _, _)
ReplacedFrom(s, i, a, b, rep) ==
    IF i > Len(s) THEN <<>>
    ELSE IF i < Len(s) /\ s[i] = a /\ s[i + 1] = b
         THEN rep \o ReplacedFrom(s, i + 2, a, b, rep)
         ELSE <<s[i]>> \o ReplacedFrom(s, i + 1, a, b, rep)

FourPasses(raw) ==
    LET newlines == ReplacedFrom(raw, 1, BS, "n", <<NL>>)
        quotes == ReplacedFrom(newlines, 1, BS, Q, <<Q>>)
        backslashes == ReplacedFrom(quotes, 1, BS, BS, <<BS>>)
    IN ReplacedFrom(backslashes, 1, BS, "t", <<SP, SP>>)

ScenarioC ==
    Text("p5Code", <<"l", "i", "n", "e", "1", BS, "n", "l", "i", "n", "e", "2", Q, "}">>)

ScenarioCHolds ==
    parsePartialJson(ScenarioC).p5Code
        = <<"l", "i", "n", "e", "1", NL, "l", "i", "n", "e", "2">>

\* C8: p5Code is the raw extracted run after four global replacements in
\* this order: \n to a newline, \" to a quote, \\ to a backslash, \t to two
\* spaces; an empty run gives an empty p5Code.
C8_FourReplacementsInOrder ==
    /\ ScenarioCHolds
    /\ isGenerating =>
          /\ parsePartialJson(streamBuffer).p5Code
                = FourPasses(extract(streamBuffer, p5CodeKey))
          /\ extract(streamBuffer, p5CodeKey) = <<>>
                => parsePartialJson(streamBuffer).p5Code = <<>>

\* A raw run with an escaped newline, shown decoded.
C8_Witness ==
    /\ Generating
    /\ extract(streamBuffer, p5CodeKey) = <<"t", BS, "n">>
    /\ displayData.p5Code = <<"t", NL>>

NoEscapePair(v) ==
    \A i \in 1..(Len(v) - 1) : ~(v[i] = BS /\ v[i + 1] \in {Q, "n"})

\* C9: no displayed field holds a backslash-quote or backslash-n pair that
\* stood for a quote or a newline of the value (values without a backslash
\* of their own, so that every such pair is an escape left undecoded).
C9_DisplayDecoded ==
    (Generating /\ values # <<>>) =>
        \A f \in Fields :
            (\A i \in 1..Len(values[1][f]) : values[1][f][i] # BS)
            => NoEscapePair(displayData[f])

\* C10: within a session the code displayed at an update is a prefix of the
\* code displayed at the next one and of the final decoded p5Code.
C10_NoBackwardFlicker ==
    [][SameSession =>
          /\ IsPrefix(codeToDisplay, codeToDisplay')
          /\ IsPrefix(codeToDisplay', FinalResult.p5Code)]_vars

-----------------------------------------------------------------------------
(* The cache of the panel across sessions and at the end of a session *)

\* C11: the render that starts a new session displays only code computed in
\* that render, and the session starts with an empty cache, whatever the
\* size of the first snapshot.
C11_CacheClearedAtStart ==
    [][(isGenerating' /\ generationStartTime' # generationStartTime) =>
          /\ codeToDisplay' = displayData'.p5Code
          /\ lastValidCodeRef' = <<>>]_vars

\* The reset effect fires after the render of this state.
CacheReset == isGenerating /\ Len(streamBuffer) < ResetThreshold

\* C12: at every update a non-empty computed p5Code is displayed and, unless
\* the reset effect fires, becomes the cache; an empty one leaves the cache
\* as it was and the cached value is displayed.
C12_CacheFollowsCode ==
    [][IF displayData'.p5Code # <<>>
       THEN /\ codeToDisplay' = displayData'.p5Code
            /\ ~CacheReset' => lastValidCodeRef' = displayData'.p5Code
       ELSE /\ codeToDisplay' = lastValidCodeRef
            /\ ~CacheReset' => lastValidCodeRef' = lastValidCodeRef]_vars

\* An update that computes no code while the cache holds some: the cached
\* code is displayed and kept.
C12_Witness ==
    /\ isGenerating
    /\ ~CacheReset
    /\ displayData.p5Code = <<>>
    /\ lastValidCodeRef # <<>>
    /\ codeToDisplay = lastValidCodeRef

\* C13: when a session ends without parsed data, a field that has no closed
\* occurrence in the final buffer is displayed as it was at the last update
\* of the stream: mutationName, reasoning and the code.
C13_SettledKeepsLastValue ==
    [][(isGenerating /\ ~isGenerating' /\ data' = <<>>) =>
          /\ \A f \in {"mutationName", "reasoning"} :
                ClosedOccs(streamBuffer', KeyOf(f)) = {}
                => displayData'[f] = displayData[f]
          /\ ClosedOccs(streamBuffer', p5CodeKey) = {}
                => codeToDisplay' = codeToDisplay]_vars

\* C14: once a session has ended, every displayed value is the one
\* parsePartialJson returns for the final buffer.
C14_SettledIsFinalParse ==
    ~isGenerating =>
        /\ \A f \in {"mutationName", "reasoning"} :
              displayData[f] = parsePartialJson(streamBuffer)[f]
        /\ codeToDisplay = parsePartialJson(streamBuffer).p5Code

-----------------------------------------------------------------------------
(* Texts with a nested object *)

\* The complete text of a session lies in the buffer and has been parsed.
CompleteText == isGenerating /\ values # <<>> /\ streamBuffer = Target

\* C15 as stated: for a complete well-formed text every field is the value
\* of the top-level property of its name, also when a nested object earlier
\* in the text has a string property of that name.
C15_TopLevelProperty ==
    CompleteText => \A f \in Fields : displayData[f] = values[1][f]

\* The string property of the name of field f that stands first in the
\* text: the nested one when the nested object comes first and holds it.
LeftmostProperty(v, f) ==
    IF "meta" \in DOMAIN v /\ v.meta.first /\ v.meta.key = KeyOf(f)
    THEN v.meta.value
    ELSE v[f]

\* C15: for a complete well-formed text every field is computed from the
\* still-escaped text of the leftmost string property of its name, nested
\* or not: as it stands for mutationName and reasoning, decoded for p5Code.
C15_LeftmostProperty ==
    CompleteText =>
        /\ \A f \in {"mutationName", "reasoning"} :
              displayData[f] = jsonBody(LeftmostProperty(values[1], f))
        /\ displayData.p5Code
              = decodeCode(jsonBody(LeftmostProperty(values[1], "p5Code")))

\* A nested object that comes first holds mutationName: its value is the
\* one returned, not the top-level one.
C15_Witness ==
    /\ CompleteText
    /\ "meta" \in DOMAIN values[1]
    /\ values[1].meta.first
    /\ values[1].meta.key = mutationNameKey
    /\ displayData.mutationName = values[1].meta.value
    /\ displayData.mutationName # values[1].mutationName

-----------------------------------------------------------------------------
(* Boundary inputs *)

\* The text ends with the opening quote of a value of the key.
EndsAtOpening(s, key) ==
    /\ s # <<>>
    /\ s[Len(s)] = Q
    /\ \E i \in KeyStarts(s, key) : Len(s) \in Opening(s, key, i)

ScenarioOpeningQuote == Text("mutationName", <<>>)

\* C16: the empty buffer gives three empty strings, and a buffer that ends
\* exactly at the opening quote of a field gives the empty string for that
\* field.
C16_BoundaryInputs ==
    /\ parsePartialJson(<<>>) = EmptyData
    /\ parsePartialJson(ScenarioOpeningQuote).mutationName = <<>>
    /\ isGenerating => \A f \in Fields :
          EndsAtOpening(streamBuffer, KeyOf(f))
          => parsePartialJson(streamBuffer)[f] = <<>>

\* A snapshot that ends at the opening quote of p5Code, after two closed
\* fields.
C16_Witness ==
    /\ isGenerating
    /\ EndsAtOpening(streamBuffer, p5CodeKey)
    /\ displayData.mutationName # <<>>
    /\ displayData.p5Code = <<>>

-----------------------------------------------------------------------------
(* The run of the closed-string pass *)

\* Positions a..b hold only plain characters and backslashes followed by
\* one character, whatever that character is.
AnyPairRun(s, a, b) ==
    \A p \in a..b :
        \/ Escaped(s, a, p)
        \/ /\ s[p] # Q
           /\ s[p] = BS => p < b

\* <<i, o, e>>: key at i, opening quote at o, and at e the first quote that
\* is not escaped.
AnyPairClosedOccs(s, key) ==
    UNION {UNION {{<<i, o, e>> : e \in {x \in (o + 1)..Len(s) :
                                          s[x] = Q /\ AnyPairRun(s, o + 1, x - 1)}}
                  : o \in Opening(s, key, i)}
           : i \in KeyStarts(s, key)}

\* C19: the closed-string pass captures the run from the opening quote of
\* the leftmost occurrence to the first quote that is not escaped, a
\* backslash taking the character after it into the run whatever it is: a
\* quote, a backslash or a raw line break.
C19_EscapePairsConsumed ==
    isGenerating => \A f \in Fields :
        \A t \in AnyPairClosedOccs(streamBuffer, KeyOf(f)) :
            IsLeftmost(t, AnyPairClosedOccs(streamBuffer, KeyOf(f)))
            => strictMatch(streamBuffer, KeyOf(f))
                  = [matched |-> TRUE,
                     cap |-> SubSeq(streamBuffer, t[2] + 1, t[3] - 1)]

\* C20: when a field has no closed-string match and the open-string pass
\* returns v, the buffer followed by one double quote has a closed-string
\* match for the field that returns v.
C20_ClosingPreservesValue ==
    [][\A f \in Fields :
          (/\ isGenerating /\ isGenerating'
           /\ streamBuffer' = streamBuffer \o <<Q>>
           /\ ~strictMatch(streamBuffer, KeyOf(f)).matched
           /\ looseMatch(streamBuffer, KeyOf(f)).matched)
          => strictMatch(streamBuffer', KeyOf(f))
                = [matched |-> TRUE,
                   cap |-> looseMatch(streamBuffer, KeyOf(f)).cap]]_vars

\* The buffer before its last character, a quote.
BeforeClosingQuote == SubSeq(streamBuffer, 1, Len(streamBuffer) - 1)

\* An open value that ends in an escaped quote has been closed by one more
\* quote and is returned as it was.
C20_Witness ==
    /\ Generating
    /\ streamBuffer[Len(streamBuffer)] = Q
    /\ ClosedOccs(BeforeClosingQuote, mutationNameKey) = {}
    /\ OpenOccs(BeforeClosingQuote, mutationNameKey) # {}
    /\ extract(BeforeClosingQuote, mutationNameKey) = <<BS, Q>>
    /\ displayData.mutationName = <<BS, Q>>

-----------------------------------------------------------------------------
(* Markdown fences *)

\* No three consecutive backticks in s.
NoFence(s) == \A i \in 1..(Len(s) - 2) : SubSeq(s, i, i + 2) # fence

\* The payload is a fence with the language tag, some text, a fence.
IsFenced(c) ==
    /\ Len(c) >= Len(fenceJavascript) + Len(fence)
    /\ IsPrefix(fenceJavascript, c)
    /\ SubSeq(c, Len(c) - 2, Len(c)) = fence

\* The text between the opening and the closing fence.
Inner(c) == SubSeq(c, Len(fenceJavascript) + 1, Len(c) - Len(fence))

\* C17: for a payload made of a fence with the tag javascript, a text and
\* a closing fence, each consumer compiles the text trimmed, and for every payload the text a consumer compiles holds
\* no three consecutive backticks.
C17_FencesStripped ==
    \A k \in Consumers :
        /\ (IsFenced(code) /\ NoFence(Inner(code)))
              => compiled[k] = trim(Inner(code))
        /\ NoFence(compiled[k])

\* A fenced payload whose text starts with a line break: the consumers
\* compile the text without the fences and the line break.
C17_Witness ==
    /\ IsFenced(code)
    /\ Inner(code) = <<NL, "a">>
    /\ \A k \in Consumers : compiled[k] = <<"a">>

-----------------------------------------------------------------------------
(* Growth of an open field, the cache within a session, key patterns in    *)
(* values                                                                  *)

\* The last character of the buffer, and the buffer before it.
LastChar == streamBuffer[Len(streamBuffer)]
BeforeLast == SubSeq(streamBuffer, 1, Len(streamBuffer) - 1)

\* C21: when the open-string pass returns v for mutationName or reasoning
\* and one character other than a quote or a backslash is appended, the
\* field becomes v followed by that character and the other fields keep
\* their values.
C21_GrowsByCharacter ==
    [][\A f \in {"mutationName", "reasoning"} :
          (/\ isGenerating /\ isGenerating'
           /\ streamBuffer # <<>>
           /\ Len(streamBuffer') = Len(streamBuffer) + 1
           /\ IsPrefix(streamBuffer, streamBuffer')
           /\ LastChar' \notin {Q, BS}
           /\ ~strictMatch(streamBuffer, KeyOf(f)).matched
           /\ looseMatch(streamBuffer, KeyOf(f)).matched)
          => /\ displayData'[f]
                   = looseMatch(streamBuffer, KeyOf(f)).cap \o <<LastChar'>>
             /\ \A g \in Fields \ {f} : displayData'[g] = displayData[g]]_vars

\* The open value of reasoning, an escape pair, has grown by one letter.
C21_Witness ==
    /\ Generating
    /\ LastChar = "b"
    /\ ~strictMatch(BeforeLast, reasoningKey).matched
    /\ looseMatch(BeforeLast, reasoningKey).cap = <<BS, "n">>
    /\ displayData.reasoning = <<BS, "n", "b">>
    /\ displayData.mutationName # <<>>

\* C22: within a session, once the panel has displayed code every later
\* render of the session displays code.
C22_CodeStaysDisplayed ==
    [][(SameSession /\ codeToDisplay # <<>>) => codeToDisplay' # <<>>]_vars

\* The position in the complete text of the quote that opens the key of
\* field f.
KeyStartOf(v, f) ==
    CASE f = "mutationName" -> 2
      [] f = "reasoning" ->
            2 + Len(jsonQuote(mutationNameKey)) + 1
              + Len(jsonQuote(v.mutationName)) + 1
      [] f = "p5Code" ->
            2 + Len(jsonQuote(mutationNameKey)) + 1
              + Len(jsonQuote(v.mutationName)) + 1
              + Len(jsonQuote(reasoningKey)) + 1
              + Len(jsonQuote(v.reasoning)) + 1

\* C23: in a well-formed text, complete or truncated, every occurrence of a
\* field that one of the passes can match starts at the key of the field,
\* and the run returned for the field is a prefix of the text of its value,
\* the whole of it once the text is complete.
C23_KeysInValuesIgnored ==
    (isGenerating /\ values # <<>>) =>
        \A f \in Fields :
            /\ \A t \in ClosedOccs(streamBuffer, KeyOf(f))
                        \cup OpenOccs(streamBuffer, KeyOf(f)) :
                  t[1] = KeyStartOf(values[1], f)
            /\ IsPrefix(extract(streamBuffer, KeyOf(f)), jsonBody(values[1][f]))
            /\ streamBuffer = Target
                  => extract(streamBuffer, KeyOf(f)) = jsonBody(values[1][f])

\* The text of reasoning spells the key pattern of p5Code before the key of
\* p5Code has arrived: p5Code is empty.
C23_Witness ==
    /\ Generating
    /\ values # <<>>
    /\ values[1].reasoning = <<Q>> \o p5CodeKey \o <<Q, COLON, Q, "y">>
    /\ Len(streamBuffer) = KeyStartOf(values[1], "p5Code") - 2
    /\ displayData.reasoning = jsonBody(values[1].reasoning)
    /\ displayData.p5Code = <<>>

-----------------------------------------------------------------------------
(* The busy flag and the insight of App *)

Unsettled == {i \in 1..Len(requests) : ~requests[i].done}
Fulfilled == {i \in 1..Len(requests) : requests[i].status = "fulfilled"}

\* C24: isAnalyzing is true whenever a request started by triggerAI has not
\* settled yet.
C24_BusyWhilePending == Unsettled # {} => isAnalyzing

\* C25: once every invocation has settled, the insight is the result of the
\* fulfilled invocation that was started last.
C25_NewestResultWins ==
    (Unsettled = {} /\ Fulfilled # {})
    => \E i \in Fulfilled : insight = <<i>> /\ \A j \in Fulfilled : j <= i

\* C26: a triggerAI invocation whose analyzeWealth rejects leaves the
\* insight as it was and returns without an error, and every invocation
\* that settles sets isAnalyzing to false.
C26_RejectionLeavesInsight ==
    [][\A i \in 1..Len(requests) :
          (~requests[i].done /\ requests'[i].done) =>
              /\ isAnalyzing' = FALSE
              /\ requests'[i].outcome = "returned"
              /\ requests'[i].status = "rejected" => insight' = insight]_vars

\* A rejected request that settled after a fulfilled one: the insight of
\* the first request is still there.
C26_Witness ==
    /\ Len(requests) >= 2
    /\ requests[1].status = "fulfilled"
    /\ requests[2].status = "rejected"
    /\ requests[2].error = "FAILED"
    /\ requests[2].done
    /\ insight = <<1>>
    /\ ~isAnalyzing

\* C29: when API_KEY is not defined or empty, every call of analyzeWealth
\* rejects with API_KEY_MISSING and neither creates a client nor issues a
\* request.
C29_MissingKeyRejects ==
    Falsy(apiKey) =>
        \A i \in 1..Len(requests) :
            /\ requests[i].status = "rejected"
            /\ requests[i].error = "API_KEY_MISSING"
            /\ ~requests[i].client
            /\ ~requests[i].issued

\* The key is the empty string and a call has been turned down.
C29_Witness ==
    /\ apiKey = ""
    /\ Len(requests) >= 1
    /\ requests[1].status = "rejected"
    /\ requests[1].error = "API_KEY_MISSING"
    /\ requests[1].done
    /\ ~requests[1].client

-----------------------------------------------------------------------------
(* The export run, the chat, the p5 instances *)

\* C27: whenever the promise of an export has settled, its container is no
\* longer in the document and its p5 instance is not alive, and no promise
\* settles twice.
C27_ExportCleansUp ==
    \A i \in 1..Len(exports) :
        /\ exports[i].settled <= 1
        /\ exports[i].promise # "pending"
              => ~exports[i].container /\ exports[i].instance # "alive"

\* C28: every assistant message comes right after the user message of the
\* same handleSend call, and a call with an empty input appends nothing and
\* issues no request.
C28_AnswersFollowQuestions ==
    /\ \A j \in 1..Len(messages) :
          messages[j].role = "assistant" =>
              /\ j > 1
              /\ messages[j - 1].role = "user"
              /\ messages[j - 1].turn = messages[j].turn
    /\ handleSend("", messages, sends)
          = [input |-> "", messages |-> messages, sends |-> sends]

\* C30: at most one p5 instance created by P5Canvas is alive, and none once
\* the component is unmounted.
C30_OneInstanceAlive ==
    /\ Cardinality(instances) <= 1
    /\ ~mounted => instances = {}

\* Code that does not compile has followed code that ran: the first
\* instance is removed and no other has been created.
C30_Witness ==
    /\ mounted
    /\ code = <<"}">>
    /\ created = 1
    /\ p5InstanceRef = <<1>>
    /\ instances = {}

====
